---------------------------- MODULE Spec2Model ----------------------------
(***************************************************************************)
(* A model of pandas_standard.py: the PandasColumn, PandasGroupBy and      *)
(* PandasDataFrame adapters of the dataframe interchange protocol over the *)
(* pandas engine.  Every adapter method is an operator that maps its       *)
(* receiver and arguments to an outcome: a returned value or the raised    *)
(* exception.  The engine (pandas) is modelled as far as the adapter reads *)
(* it: labels, index, dtypes and cell values of a Series or DataFrame.     *)
(***************************************************************************)
EXTENDS Integers, Sequences, FiniteSets

VARIABLES
    self,     \* the receiver of the last call (a PandasDataFrame)
    call,     \* the last call: its method name and its arguments
    result,   \* the outcome of the last call: a value or an exception
    pool      \* the Columns the caller built with from_array and holds

vars == <<self, call, result, pool>>

(***************************************************************************)
(* Bounds of the model.                                                    *)
(***************************************************************************)
MaxRows == 2      \* receivers have at most MaxRows rows
MaxCols == 2      \* receivers have at most MaxCols columns

(***************************************************************************)
(* Outcomes of a call.                                                     *)
(***************************************************************************)
Ok(kind, val) == [err |-> "", kind |-> kind, val |-> val]
Raise(e) == [err |-> e, kind |-> "none", val |-> <<>>]
IsFrame(r) == r.err = "" /\ r.kind = "frame"
IsColumn(r) == r.err = "" /\ r.kind = "column"
IsGroupBy(r) == r.err = "" /\ r.kind = "groupby"

(***************************************************************************)
(* Generic sequence helpers.                                               *)
(***************************************************************************)
Range(s) == {s[i] : i \in DOMAIN s}
Max(a, b) == IF a >= b THEN a ELSE b
Min(a, b) == IF a <= b THEN a ELSE b
Abs(a) == IF a < 0 THEN -a ELSE a
SeqsUpTo(S, n) == UNION {[1..m -> S] : m \in 0..n}
IsInjective(s) == \A i, j \in DOMAIN s : s[i] = s[j] => i = j
Positions(s, x) == {i \in DOMAIN s : s[i] = x}
\* list.index(x): the first position (1-based here) holding x
IndexOf(s, x) == CHOOSE i \in Positions(s, x) : \A j \in Positions(s, x) : i <= j
FilterIdx(n, P(_)) == SelectSeq([i \in 1..n |-> i], P)
RECURSIVE Flatten(_)
Flatten(ss) == IF ss = <<>> THEN <<>> ELSE Head(ss) \o Flatten(Tail(ss))
RECURSIVE Gcd(_, _)
Gcd(a, b) == IF b = 0 THEN a ELSE Gcd(b, a % b)
\* floor and ceiling of a / b for b # 0
FloorDiv(a, b) == IF b > 0 THEN a \div b ELSE (-a) \div (-b)
CeilDiv(a, b) == -FloorDiv(-a, b)
RECURSIVE Pow(_, _)
Pow(a, n) == IF n = 0 THEN 1 ELSE a * Pow(a, n - 1)

(***************************************************************************)
(* Column labels.  A label is a Python object: a str, or something else    *)
(* (an int here); isinstance(label, str) reads its type.                   *)
(***************************************************************************)
StrLabel(s) == [type |-> "str", val |-> s]
IntLabel(s) == [type |-> "int", val |-> s]
NoName == [type |-> "NoneType", val |-> ""]
IsStr(l) == l.type = "str"

(***************************************************************************)
(* Cell values of the engine.  int and bool cells; float cells as exact    *)
(* rationals v/d; the float NaN; the nullable dtypes' missing marker NA   *)
(* (also None); str cells as digit strings (v is the digits read as       *)
(* a number); sqrt cells sqrt(v/d) for a standard deviation.               *)
(***************************************************************************)
IntCell(n) == [k |-> "int", v |-> n, d |-> 1]
BoolCell(b) == [k |-> "bool", v |-> IF b THEN 1 ELSE 0, d |-> 1]
NA == [k |-> "NA", v |-> 0, d |-> 1]
NaN == [k |-> "NaN", v |-> 0, d |-> 1]
StrCell(n) == [k |-> "str", v |-> n, d |-> 1]
FloatCell(n, m) ==
    LET g == Gcd(Abs(n), Abs(m))
        s == IF m < 0 THEN -1 ELSE 1
    IN  [k |-> "float", v |-> (s * n) \div g, d |-> (s * m) \div g]
SqrtCell(n, m) ==
    LET g == Gcd(Abs(n), Abs(m))
    IN  IF n = 0 THEN FloatCell(0, 1) ELSE [k |-> "sqrt", v |-> n \div g, d |-> m \div g]
Truth(c) == c.v # 0
IsMissing(c) == c.k \in {"NA", "NaN"}
ExtensionDtypes == {"Int64", "Float64", "boolean"}
\* pandas.api.types.is_extension_array_dtype
is_extension_array_dtype(dtype) == dtype \in ExtensionDtypes

(***************************************************************************)
(* The engine's Index: a RangeIndex (start, stop, step), an integer Index  *)
(* of explicit labels, or the index of group keys that groupby(as_index=   *)
(* True) builds.  labels holds the row labels in every case.               *)
(***************************************************************************)
RangeLen(start, stop, step) ==
    IF step > 0 THEN Max(0, CeilDiv(stop - start, step))
    ELSE Max(0, CeilDiv(start - stop, -step))
RangeLabels(start, stop, step) ==
    [i \in 1..RangeLen(start, stop, step) |-> start + (i - 1) * step]
RangeIndex(start, stop, step) ==
    [kind |-> "range", start |-> start, stop |-> stop, step |-> step,
     labels |-> RangeLabels(start, stop, step)]
Int64Index(labels) ==
    [kind |-> "int64", start |-> 0, stop |-> 0, step |-> 0, labels |-> labels]
KeysIndex(keys) ==
    [kind |-> "keys", start |-> 0, stop |-> 0, step |-> 0, labels |-> keys]
\* Index.equals: the same labels in the same order; a RangeIndex equals an
\* integer Index of the same labels, and never an index of group keys
IndexEquals(a, b) ==
    /\ (a.kind = "keys") = (b.kind = "keys")
    /\ Len(a.labels) = Len(b.labels)
    /\ a.labels = b.labels
\* pd.testing.assert_index_equal(left, right): exact="equiv" takes a
\* RangeIndex for an integer Index; raises AssertionError otherwise
assert_index_equal(left, right) ==
    IF /\ (left.kind = "keys") = (right.kind = "keys")
       /\ Len(left.labels) = Len(right.labels)
       /\ left.labels = right.labels
    THEN "" ELSE "AssertionError"
\* index.take(positions) / index[mask]: an integer Index of the taken labels
IndexTake(idx, positions) ==
    IF idx.kind = "keys" THEN KeysIndex([i \in DOMAIN positions |-> idx.labels[positions[i]]])
    ELSE Int64Index([i \in DOMAIN positions |-> idx.labels[positions[i]]])

(***************************************************************************)
(* The engine's Series and DataFrame.                                      *)
(***************************************************************************)
Series(name, index, values, dtype) ==
    [name |-> name, index |-> index, values |-> values, dtype |-> dtype]
\* data[j] holds the cells of column j, one per row of the index
DataFrame(columns, index, data, dtypes) ==
    [columns |-> columns, index |-> index, data |-> data, dtypes |-> dtypes]
NRows(df) == Len(df.index.labels)
NCols(df) == Len(df.columns)
\* DataFrame.shape
Shape(df) == <<NRows(df), NCols(df)>>
\* the Series of column position j
ColumnAt(df, j) == Series(df.columns[j], df.index, df.data[j], df.dtypes[j])
\* DataFrame.reset_index(drop=True): the default RangeIndex(0, N, 1)
reset_index(df) == [df EXCEPT !.index = RangeIndex(0, NRows(df), 1)]
\* DataFrame.iloc[:, lo:hi] for 1-based inclusive column positions
SubCols(df, lo, hi) ==
    DataFrame(SubSeq(df.columns, lo, hi), df.index,
              SubSeq(df.data, lo, hi), SubSeq(df.dtypes, lo, hi))
\* the rows at the given 1-based positions, in that order
TakeRows(df, positions) ==
    DataFrame(df.columns, IndexTake(df.index, positions),
              [j \in DOMAIN df.data |-> [i \in DOMAIN positions |-> df.data[j][positions[i]]]],
              df.dtypes)

(***************************************************************************)
(* Python arguments whose type the adapter inspects: a list, tuple, str,   *)
(* set or dict with its items in iteration order.                          *)
(***************************************************************************)
PyObj(type, items) == [type |-> type, items |-> items]
\* isinstance(x, collections.abc.Sequence)
IsSequence(x) == x.type \in {"list", "tuple", "str"}
\* isinstance(x, collections.abc.Mapping)
IsMapping(x) == x.type = "dict"
\* the 0-based positions a Python slice start:stop:step selects of n items
SliceLo(start, step, n) ==
    IF step > 0 THEN (IF start < 0 THEN Max(start + n, 0) ELSE Min(start, n))
    ELSE (IF start < 0 THEN Max(start + n, -1) ELSE Min(start, n - 1))
SlicePositions(start, stop, step, n) ==
    RangeLabels(SliceLo(start, step, n), SliceLo(stop, step, n), step)

(***************************************************************************)
(* PandasDataFrame: construction and validation.  A PandasDataFrame is     *)
(* identified with the engine frame it wraps (self._dataframe).            *)
(***************************************************************************)
\* "" when the labels pass, else the exception raised
_validate_columns(columns) ==
    IF \E i, j \in DOMAIN columns : i # j /\ columns[i] = columns[j] THEN "ValueError"
    ELSE IF \E i \in DOMAIN columns : ~IsStr(columns[i]) THEN "TypeError"
    ELSE ""

\* a variant of the constructor that keeps whatever index the frame carries
PandasDataFrame__init__NoReset(dataframe) ==
    LET e == _validate_columns(dataframe.columns)
    IN  IF e # "" THEN Raise(e) ELSE Ok("frame", dataframe)

\* a variant of the constructor that accepts any labels
PandasDataFrame__init__NoValidate(dataframe) ==
    Ok("frame", reset_index(dataframe))

PandasDataFrame__init__(dataframe) ==
    LET e == _validate_columns(dataframe.columns)
    IN  IF e # "" THEN Raise(e)
        ELSE IF /\ dataframe.index.kind = "range"
                /\ dataframe.index.start = 0
                /\ dataframe.index.step = 1
                /\ dataframe.index.stop = NRows(dataframe) - 1
             THEN Ok("frame", dataframe)
             ELSE Ok("frame", reset_index(dataframe))

_validate_index(df, index) == assert_index_equal(df.index, index)

\* a pre-check that compares the shapes only
_validate_comparand_shape_only(df, other) ==
    IF Shape(df) # Shape(other) THEN "ValueError" ELSE ""

_validate_comparand(df, other) ==
    IF ~(/\ IndexEquals(df.index, other.index)
         /\ Shape(df) = Shape(other)
         /\ df.columns = other.columns)
    THEN "ValueError" ELSE ""

_validate_booleanness(df) ==
    IF \A j \in DOMAIN df.dtypes : df.dtypes[j] = "bool" THEN "" ELSE "NotImplementedError"

get_column_names(df) == df.columns

(***************************************************************************)
(* The engine: building a frame from a dict of Series.  pandas aligns the  *)
(* Series on the union of their indexes; a Series without a row gets the   *)
(* missing value there, and its dtype is widened to hold it.               *)
(***************************************************************************)
RECURSIVE SortedSeq(_)
SortedSeq(S) ==
    IF S = {} THEN <<>>
    ELSE LET m == CHOOSE x \in S : \A y \in S : x <= y
         IN  <<m>> \o SortedSeq(S \ {m})
UnionIndex(indexes) ==
    IF indexes = <<>> THEN RangeIndex(0, 0, 1)
    ELSE IF \A i \in DOMAIN indexes : IndexEquals(indexes[i], indexes[1]) THEN indexes[1]
    ELSE Int64Index(SortedSeq(UNION {Range(indexes[i].labels) : i \in DOMAIN indexes}))
WidenedDtype(dtype) ==
    CASE dtype = "int64" -> "float64"
      [] dtype = "bool" -> "object"
      [] OTHER -> dtype
WidenedCell(c, dtype) ==
    IF dtype = "int64" THEN FloatCell(c.v, 1) ELSE c
\* Series.reindex(index)
Reindex(s, index) ==
    LET has(l) == \E i \in DOMAIN s.index.labels : s.index.labels[i] = l
        at(l) == s.values[IndexOf(s.index.labels, l)]
        short == \E i \in DOMAIN index.labels : ~has(index.labels[i])
        fill == IF is_extension_array_dtype(s.dtype) THEN NA ELSE NaN
    IN  IF ~short THEN Series(s.name, index, [i \in DOMAIN index.labels |-> at(index.labels[i])], s.dtype)
        ELSE Series(s.name, index,
                    [i \in DOMAIN index.labels |->
                        IF has(index.labels[i]) THEN WidenedCell(at(index.labels[i]), s.dtype)
                        ELSE fill],
                    WidenedDtype(s.dtype))
\* pd.DataFrame({label: series, ...}); data lists the dict's items in
\* insertion order (a dict holds each key once)
DataFrameFromDict(data) ==
    LET index == UnionIndex([i \in DOMAIN data |-> data[i].column.index])
        cols == [i \in DOMAIN data |-> Reindex(data[i].column, index)]
    IN  DataFrame([i \in DOMAIN data |-> data[i].label], index,
                  [i \in DOMAIN data |-> cols[i].values],
                  [i \in DOMAIN data |-> cols[i].dtype])
\* pd.concat([before, to_insert, after], axis=1) of parts on one index
ConcatCols(before, s, after) ==
    DataFrame(before.columns \o <<s.name>> \o after.columns, before.index,
              before.data \o <<s.values>> \o after.data,
              before.dtypes \o <<s.dtype>> \o after.dtypes)
\* pd.concat(series, axis=1) of Series on one index
ConcatSeries(ss, index) ==
    DataFrame([j \in DOMAIN ss |-> ss[j].name], index,
              [j \in DOMAIN ss |-> ss[j].values], [j \in DOMAIN ss |-> ss[j].dtype])

(***************************************************************************)
(* PandasDataFrame: selection.                                             *)
(***************************************************************************)
from_dict(data) == PandasDataFrame__init__(DataFrameFromDict(data))

get_column_by_name(df, name) ==
    IF ~IsStr(name) THEN Raise("TypeError")
    ELSE IF Positions(df.columns, name) = {} THEN Raise("KeyError")
    ELSE Ok("column", ColumnAt(df, IndexOf(df.columns, name)))

get_columns_by_name(df, names) ==
    IF names.type = "str" THEN Raise("TypeError")
    ELSE LET e == _validate_columns(names.items)
             at(i) == IndexOf(df.columns, names.items[i])
         IN  IF e # "" THEN Raise(e)
             ELSE IF \E i \in DOMAIN names.items : Positions(df.columns, names.items[i]) = {}
                  THEN Raise("KeyError")
             ELSE PandasDataFrame__init__(
                      DataFrame(names.items, df.index,
                                [i \in DOMAIN names.items |-> df.data[at(i)]],
                                [i \in DOMAIN names.items |-> df.dtypes[at(i)]]))

\* DataFrame.iloc[list(indices), :]: a negative position counts from the end
ILocRows(df, items) ==
    TakeRows(df, [i \in DOMAIN items |->
                     IF items[i] < 0 THEN items[i] + NRows(df) + 1 ELSE items[i] + 1])

\* a variant of get_rows that filters: the rows named, once each, in row order
get_rows_sorted(df, indices) ==
    IF ~IsSequence(indices) THEN Raise("TypeError")
    ELSE IF \E i \in DOMAIN indices.items :
                indices.items[i] >= NRows(df) \/ indices.items[i] < -NRows(df)
         THEN Raise("IndexError")
    ELSE PandasDataFrame__init__(
             TakeRows(df, SortedSeq({IF indices.items[i] < 0 THEN indices.items[i] + NRows(df) + 1
                                     ELSE indices.items[i] + 1 : i \in DOMAIN indices.items})))

get_rows(df, indices) ==
    IF ~IsSequence(indices) THEN Raise("TypeError")
    ELSE IF \E i \in DOMAIN indices.items :
                indices.items[i] >= NRows(df) \/ indices.items[i] < -NRows(df)
         THEN Raise("IndexError")
    ELSE PandasDataFrame__init__(ILocRows(df, indices.items))

\* DataFrame.iloc[start:stop:step]: a RangeIndex is sliced to a RangeIndex
ILocSlice(df, start, stop, step) ==
    LET n == NRows(df)
        pos == SlicePositions(start, stop, step, n)
        taken == TakeRows(df, [i \in DOMAIN pos |-> pos[i] + 1])
        idx == df.index
    IN  IF idx.kind = "range"
        THEN [taken EXCEPT !.index =
                 RangeIndex(idx.start + SliceLo(start, step, n) * idx.step,
                            idx.start + SliceLo(stop, step, n) * idx.step,
                            idx.step * step)]
        ELSE taken

slice_rows(df, start, stop, step) ==
    IF step = 0 THEN Raise("ValueError")
    ELSE PandasDataFrame__init__(ILocSlice(df, start, stop, step))

\* DataFrame.loc[series, :]: a boolean Series filters the rows; any other
\* Series is read as a list of row labels
LocRows(df, series) ==
    IF series.dtype = "bool"
    THEN Ok("engine", TakeRows(df, FilterIdx(NRows(df), LAMBDA i : Truth(series.values[i]))))
    ELSE IF series.dtype = "int64"
            /\ \A i \in DOMAIN series.values :
                   Positions(df.index.labels, series.values[i].v) # {}
    THEN Ok("engine", TakeRows(df, [i \in DOMAIN series.values |->
                                       IndexOf(df.index.labels, series.values[i].v)]))
    ELSE Raise("KeyError")

get_rows_by_mask(df, mask) ==
    LET e == _validate_index(df, mask.index)
        rows == LocRows(df, mask)
    IN  IF e # "" THEN Raise(e)
        ELSE IF rows.err # "" THEN rows
        ELSE PandasDataFrame__init__(rows.val)

(***************************************************************************)
(* PandasDataFrame: insert, drop_column, set_column, rename_columns.       *)
(***************************************************************************)
\* a variant of insert that ignores loc and puts the Column last
insert_append(df, loc, label, value) ==
    LET e == _validate_index(df, value.index)
    IN  IF e # "" THEN Raise(e)
        ELSE PandasDataFrame__init__(
                 ConcatCols(df, [value EXCEPT !.name = label], SubCols(df, 1, 0)))

insert(df, loc, label, value) ==
    LET e == _validate_index(df, value.index)
        n == NCols(df)
        c == IF loc < 0 THEN Max(loc + n, 0) ELSE Min(loc, n)
        before == SubCols(df, 1, c)
        after == SubCols(df, c + 1, n)
        to_insert == [value EXCEPT !.name = label]
    IN  IF e # "" THEN Raise(e)
        ELSE PandasDataFrame__init__(ConcatCols(before, to_insert, after))

\* DataFrame.drop(label, axis=1)
DropLabel(df, label) ==
    LET keep == FilterIdx(NCols(df), LAMBDA j : df.columns[j] # label)
    IN  DataFrame([i \in DOMAIN keep |-> df.columns[keep[i]]], df.index,
                  [i \in DOMAIN keep |-> df.data[keep[i]]],
                  [i \in DOMAIN keep |-> df.dtypes[keep[i]]])

drop_column(df, label) ==
    IF ~IsStr(label) THEN Raise("TypeError")
    ELSE IF Positions(df.columns, label) = {} THEN Raise("KeyError")
    ELSE PandasDataFrame__init__(DropLabel(df, label))

set_column(df, label, value) ==
    LET columns == get_column_names(df)
        dropped == drop_column(df, label)
    IN  IF Positions(columns, label) # {}
        THEN IF dropped.err # "" THEN dropped
             ELSE insert(dropped.val, IndexOf(columns, label) - 1, label, value)
        ELSE insert(df, Len(columns), label, value)

\* DataFrame.rename(columns=mapping); mapping.items lists (old, new) pairs
RenameLabels(df, items) ==
    LET new(l) == IF \E i \in DOMAIN items : items[i][1] = l
                  THEN items[CHOOSE i \in DOMAIN items : items[i][1] = l][2]
                  ELSE l
    IN  [df EXCEPT !.columns = [j \in DOMAIN df.columns |-> new(df.columns[j])]]

rename_columns(df, mapping) ==
    IF ~IsMapping(mapping) THEN Raise("TypeError")
    ELSE PandasDataFrame__init__(RenameLabels(df, mapping.items))

(***************************************************************************)
(* PandasColumn.  A PandasColumn is identified with the Series it wraps.   *)
(***************************************************************************)
\* pd.Series(array, dtype=dtype): None and nan become the dtype's missing
\* value; a dtype that cannot hold an item raises
from_array(array, dtype) ==
    LET conv(c) ==
            CASE dtype \in {"float64"} /\ IsMissing(c) -> NaN
              [] dtype \in {"float64", "Float64"} /\ c.k = "int" -> FloatCell(c.v, 1)
              [] is_extension_array_dtype(dtype) /\ IsMissing(c) -> NA
              [] OTHER -> c
        fits(c) ==
            CASE dtype = "int64" -> c.k = "int"
              [] dtype = "bool" -> c.k = "bool"
              [] dtype \in {"float64", "Float64", "Int64"} -> c.k = "int" \/ IsMissing(c)
              [] dtype = "boolean" -> c.k = "bool" \/ IsMissing(c)
              [] OTHER -> TRUE
    IN  IF \A i \in DOMAIN array : fits(array[i])
        THEN Ok("column", Series(NoName, RangeIndex(0, Len(array), 1),
                                 [i \in DOMAIN array |-> conv(array[i])], dtype))
        ELSE Raise("TypeError")

\* Series.isna() / Series.isnull(): a nullable dtype reports its mask (NA),
\* any other dtype its NaN and None cells
SeriesIsna(s) ==
    Series(s.name, s.index,
           [i \in DOMAIN s.values |->
               BoolCell(IF is_extension_array_dtype(s.dtype) THEN s.values[i].k = "NA"
                        ELSE IsMissing(s.values[i]))],
           "bool")
\* np.isnan(series) of a nullable dtype: NA stays NA, dtype boolean
NumpyIsnan(s) ==
    Series(s.name, s.index,
           [i \in DOMAIN s.values |->
               IF s.values[i].k = "NA" THEN NA ELSE BoolCell(s.values[i].k = "NaN")],
           "boolean")
\* Series.replace(pd.NA, False).astype(bool)
ReplaceNAFalse(s) ==
    Series(s.name, s.index,
           [i \in DOMAIN s.values |->
               IF s.values[i].k = "NA" THEN BoolCell(FALSE) ELSE s.values[i]],
           "bool")
\* pd.Series(np.array([False] * n), name=name)
AllFalse(n, name) ==
    Series(name, RangeIndex(0, n, 1), [i \in 1..n |-> BoolCell(FALSE)], "bool")

PandasColumn_isnull(s) ==
    IF is_extension_array_dtype(s.dtype) THEN SeriesIsna(s)
    ELSE AllFalse(Len(s.values), NoName)

PandasColumn_isnan(s) == SeriesIsna(s)

\* series & series: aligned on the union of the indexes, a missing operand
\* counting as False
SeriesAnd(a, b) ==
    LET index == UnionIndex(<<a.index, b.index>>)
        cell(s, l) == IF Positions(s.index.labels, l) = {} THEN FALSE
                      ELSE Truth(s.values[IndexOf(s.index.labels, l)])
    IN  Series(IF a.name = b.name THEN a.name ELSE NoName, index,
               [i \in DOMAIN index.labels |->
                   BoolCell(cell(a, index.labels[i]) /\ cell(b, index.labels[i]))],
               "bool")
\* a variant of __and__ that computes series | series
PandasColumn__and__Or(a, b) ==
    LET index == UnionIndex(<<a.index, b.index>>)
        cell(s, l) == IF Positions(s.index.labels, l) = {} THEN FALSE
                      ELSE Truth(s.values[IndexOf(s.index.labels, l)])
    IN  Series(IF a.name = b.name THEN a.name ELSE NoName, index,
               [i \in DOMAIN index.labels |->
                   BoolCell(cell(a, index.labels[i]) \/ cell(b, index.labels[i]))],
               "bool")

PandasColumn__and__(s, other) == SeriesAnd(s, other)

(***************************************************************************)
(* PandasDataFrame: binary operators.  The engine's kernels on two int64   *)
(* cells (positive divisors and exponents only).                           *)
(***************************************************************************)
Comparisons == {"__eq__", "__ne__", "__ge__", "__gt__", "__le__", "__lt__"}
Arithmetic == {"__add__", "__sub__", "__mul__", "__truediv__", "__floordiv__",
               "__pow__", "__mod__"}
BinaryOps == Comparisons \cup Arithmetic \cup {"__divmod__"}
CellOp(op, x, y) ==
    CASE op = "__eq__" -> BoolCell(x.v = y.v)
      [] op = "__ne__" -> BoolCell(x.v # y.v)
      [] op = "__ge__" -> BoolCell(x.v >= y.v)
      [] op = "__gt__" -> BoolCell(x.v > y.v)
      [] op = "__le__" -> BoolCell(x.v <= y.v)
      [] op = "__lt__" -> BoolCell(x.v < y.v)
      [] op = "__add__" -> IntCell(x.v + y.v)
      [] op = "__sub__" -> IntCell(x.v - y.v)
      [] op = "__mul__" -> IntCell(x.v * y.v)
      [] op = "__truediv__" -> FloatCell(x.v, y.v)
      [] op = "__floordiv__" -> IntCell(FloorDiv(x.v, y.v))
      [] op = "__pow__" -> IntCell(Pow(x.v, y.v))
      [] op = "__mod__" -> IntCell(x.v - y.v * FloorDiv(x.v, y.v))
OpDtype(op) ==
    IF op \in Comparisons THEN "bool" ELSE IF op = "__truediv__" THEN "float64" ELSE "int64"
\* DataFrame.__op__(other) of two aligned frames: cell by cell
FrameOp(op, df, other) ==
    DataFrame(df.columns, df.index,
              [j \in DOMAIN df.data |->
                  [i \in DOMAIN df.data[j] |-> CellOp(op, df.data[j][i], other.data[j][i])]],
              [j \in DOMAIN df.dtypes |-> OpDtype(op)])

\* the shape __eq__ .. __mod__ share: the pre-check, then the engine operator
BinaryOp(op, df, other) ==
    LET e == _validate_comparand(df, other)
    IN  IF e # "" THEN Raise(e)
        ELSE PandasDataFrame__init__(FrameOp(op, df, other))

__eq__(df, other) == BinaryOp("__eq__", df, other)
__ne__(df, other) == BinaryOp("__ne__", df, other)
__ge__(df, other) == BinaryOp("__ge__", df, other)
__gt__(df, other) == BinaryOp("__gt__", df, other)
__le__(df, other) == BinaryOp("__le__", df, other)
__lt__(df, other) == BinaryOp("__lt__", df, other)
__add__(df, other) == BinaryOp("__add__", df, other)
__sub__(df, other) == BinaryOp("__sub__", df, other)
__mul__(df, other) == BinaryOp("__mul__", df, other)
__truediv__(df, other) == BinaryOp("__truediv__", df, other)
__floordiv__(df, other) == BinaryOp("__floordiv__", df, other)
__pow__(df, other) == BinaryOp("__pow__", df, other)
__mod__(df, other) == BinaryOp("__mod__", df, other)

__divmod__(df, other) ==
    LET e == _validate_comparand(df, other)
        quotient == PandasDataFrame__init__(FrameOp("__floordiv__", df, other))
        remainder == PandasDataFrame__init__(FrameOp("__mod__", df, other))
    IN  IF e # "" THEN Raise(e)
        ELSE IF quotient.err # "" THEN quotient
        ELSE IF remainder.err # "" THEN remainder
        ELSE Ok("frames", <<quotient.val, remainder.val>>)

(***************************************************************************)
(* PandasDataFrame: any, all, isnull, isnan, concat.                       *)
(***************************************************************************)
\* DataFrame.any().to_frame().T / DataFrame.all().to_frame().T: one row,
\* labelled 0, holding each column's reduction
ReduceFrame(df, isAny) ==
    DataFrame(df.columns, Int64Index(<<0>>),
              [j \in DOMAIN df.data |->
                  <<BoolCell(IF isAny THEN \E i \in DOMAIN df.data[j] : Truth(df.data[j][i])
                             ELSE \A i \in DOMAIN df.data[j] : Truth(df.data[j][i]))>>],
              [j \in DOMAIN df.dtypes |-> "bool"])

PandasDataFrame_any(df) ==
    LET e == _validate_booleanness(df)
    IN  IF e # "" THEN Raise(e) ELSE PandasDataFrame__init__(ReduceFrame(df, TRUE))

PandasDataFrame_all(df) ==
    LET e == _validate_booleanness(df)
    IN  IF e # "" THEN Raise(e) ELSE PandasDataFrame__init__(ReduceFrame(df, FALSE))

\* pd.concat(result, axis=1); an empty list raises ValueError
ConcatAxis1(ss) ==
    IF ss = <<>> THEN Raise("ValueError")
    ELSE Ok("engine", ConcatSeries(ss, UnionIndex([j \in DOMAIN ss |-> ss[j].index])))

PandasDataFrame_isnull(df) ==
    LET res == [j \in DOMAIN df.columns |->
                   IF is_extension_array_dtype(df.dtypes[j]) THEN SeriesIsna(ColumnAt(df, j))
                   ELSE AllFalse(NRows(df), df.columns[j])]
        cat == ConcatAxis1(res)
    IN  IF cat.err # "" THEN cat ELSE PandasDataFrame__init__(cat.val)

PandasDataFrame_isnan(df) ==
    LET res == [j \in DOMAIN df.columns |->
                   IF is_extension_array_dtype(df.dtypes[j])
                   THEN ReplaceNAFalse(NumpyIsnan(ColumnAt(df, j)))
                   ELSE SeriesIsna(ColumnAt(df, j))]
        cat == ConcatAxis1(res)
    IN  IF cat.err # "" THEN cat ELSE PandasDataFrame__init__(cat.val)

\* _other.dataframe.dtypes != self.dataframe.dtypes: two Series indexed by
\* the column labels; Series that are not identically labelled raise
DtypesNe(other, df) ==
    IF other.columns # df.columns THEN Raise("ValueError")
    ELSE Ok("series", [j \in DOMAIN df.dtypes |-> other.dtypes[j] # df.dtypes[j]])
\* bool(series), which `if` asks for: the truth value of a Series is
\* ambiguous, whatever it holds
SeriesBool(series) == Raise("ValueError")
\* pd.concat(frames, axis=0, ignore_index=True) of frames with one set of labels
ConcatRows(frames) ==
    LET first == frames[1]
    IN  DataFrame(first.columns,
                  RangeIndex(0, Len(Flatten([f \in DOMAIN frames |-> frames[f].index.labels])), 1),
                  [j \in DOMAIN first.data |-> Flatten([f \in DOMAIN frames |-> frames[f].data[j]])],
                  first.dtypes)

\* the outcome of the loop over other: "" when it runs through
RECURSIVE ConcatCheck(_, _)
ConcatCheck(df, other) ==
    IF other = <<>> THEN ""
    ELSE LET ne == DtypesNe(Head(other), df)
             truth == SeriesBool(ne.val)
         IN  IF ne.err # "" THEN ne.err
             ELSE IF truth.err # "" THEN truth.err
             ELSE IF truth.val THEN "ValueError"
             ELSE ConcatCheck(df, Tail(other))

concat(df, other) ==
    LET e == ConcatCheck(df, other)
    IN  IF e # "" THEN Raise(e)
        ELSE PandasDataFrame__init__(ConcatRows(<<df>> \o other))

(***************************************************************************)
(* PandasGroupBy.  The engine partitions the rows by their key cells (a    *)
(* row with a missing key cell is in no group) and reduces every non-key   *)
(* column per group.  A column whose dtype the reduction does not support  *)
(* is either dropped from the result or makes the engine raise TypeError,  *)
(* depending on the engine's version: both are modelled.                   *)
(***************************************************************************)
KeyOf(df, keys, r) == [i \in DOMAIN keys |-> df.data[IndexOf(df.columns, keys[i])][r]]
KeyedRows(df, keys) ==
    FilterIdx(NRows(df), LAMBDA r : \A i \in DOMAIN keys : ~IsMissing(KeyOf(df, keys, r)[i]))
\* the first row of every group, in order of first occurrence (sort=False)
GroupFirsts(df, keys) ==
    SelectSeq(KeyedRows(df, keys),
              LAMBDA r : \A q \in 1..(r - 1) : KeyOf(df, keys, q) # KeyOf(df, keys, r))
GroupRows(df, keys, first) ==
    FilterIdx(NRows(df), LAMBDA r : KeyOf(df, keys, r) = KeyOf(df, keys, first))
\* key tuples in ascending order (sort=True)
KeyLess(a, b) ==
    \E i \in DOMAIN a : a[i].v < b[i].v /\ \A j \in 1..(i - 1) : a[j].v = b[j].v
RECURSIVE SortRowsByKey(_, _, _)
SortRowsByKey(df, keys, rows) ==
    IF rows = {} THEN <<>>
    ELSE LET m == CHOOSE r \in rows :
                      \A q \in rows : ~KeyLess(KeyOf(df, keys, q), KeyOf(df, keys, r))
         IN  <<m>> \o SortRowsByKey(df, keys, rows \ {m})

RECURSIVE SumV(_)
SumV(cells) == IF cells = <<>> THEN 0 ELSE Head(cells).v + SumV(Tail(cells))
RECURSIVE SumSq(_)
SumSq(cells) == IF cells = <<>> THEN 0 ELSE Head(cells).v * Head(cells).v + SumSq(Tail(cells))
RECURSIVE ProdV(_)
ProdV(cells) == IF cells = <<>> THEN 1 ELSE Head(cells).v * ProdV(Tail(cells))
RECURSIVE Digits(_)
Digits(n) == IF n < 10 THEN 1 ELSE 1 + Digits(n \div 10)
RECURSIVE ConcatStr(_)
ConcatStr(cells) ==
    IF cells = <<>> THEN 0
    ELSE LET rest == ConcatStr(Tail(cells))
         IN  IF Tail(cells) = <<>> THEN Head(cells).v
             ELSE Head(cells).v * Pow(10, Digits(rest)) + rest
\* the cells' values in ascending order, each paired with its position
SortedV(cells) == SortedSeq({cells[i].v * (Len(cells) + 1) + i : i \in DOMAIN cells})
\* the i-th smallest value of the cells
NthV(cells, i) == SortedV(cells)[i] \div (Len(cells) + 1)
Aggregations == {"any", "all", "min", "max", "sum", "prod", "median", "mean", "std", "var"}
\* the engine's reduction of one group's cells of one column (skipna)
Reduce(op, cells, dtype) ==
    LET vals == SelectSeq(cells, LAMBDA c : ~IsMissing(c))
        n == Len(vals)
        least == CHOOSE i \in DOMAIN vals : \A j \in DOMAIN vals : vals[i].v <= vals[j].v
        most == CHOOSE i \in DOMAIN vals : \A j \in DOMAIN vals : vals[i].v >= vals[j].v
        dev == n * SumSq(vals) - SumV(vals) * SumV(vals)
    IN  CASE op = "any" -> BoolCell(\E i \in DOMAIN vals : Truth(vals[i]))
          [] op = "all" -> BoolCell(\A i \in DOMAIN vals : Truth(vals[i]))
          [] op = "min" -> IF n = 0 THEN NaN ELSE vals[least]
          [] op = "max" -> IF n = 0 THEN NaN ELSE vals[most]
          [] op = "sum" -> IF dtype = "object" THEN StrCell(ConcatStr(vals)) ELSE IntCell(SumV(vals))
          [] op = "prod" -> IntCell(ProdV(vals))
          [] op = "mean" -> IF n = 0 THEN NaN ELSE FloatCell(SumV(vals), n)
          [] op = "median" ->
                 IF n = 0 THEN NaN
                 ELSE IF n % 2 = 1 THEN FloatCell(NthV(vals, (n + 1) \div 2), 1)
                 ELSE FloatCell(NthV(vals, n \div 2) + NthV(vals, n \div 2 + 1), 2)
          [] op = "var" -> IF n < 2 THEN NaN ELSE FloatCell(dev, n * (n - 1))
          [] op = "std" -> IF n < 2 THEN NaN ELSE SqrtCell(dev, n * (n - 1))
ReduceDtype(op, dtype) ==
    CASE op \in {"any", "all"} -> "bool"
      [] op \in {"min", "max"} -> dtype
      [] op = "sum" -> IF dtype = "object" THEN "object" ELSE "int64"
      [] op = "prod" -> "int64"
      [] OTHER -> "float64"
\* a column the engine cannot reduce with op
Nuisance(op, dtype) == dtype = "object" /\ op \in {"prod", "median", "mean", "std", "var"}
\* df.groupby(keys, sort=False, as_index=False).op(): the key columns, then
\* every reduced column in the frame's order; engine is "drops" or "raises"
GroupedAgg(df, keys, op, engine) ==
    LET firsts == GroupFirsts(df, keys)
        others == FilterIdx(NCols(df), LAMBDA j : \A i \in DOMAIN keys : keys[i] # df.columns[j])
        kept == SelectSeq(others, LAMBDA j : ~Nuisance(op, df.dtypes[j]))
        keypos == [i \in DOMAIN keys |-> IndexOf(df.columns, keys[i])]
    IN  IF engine = "raises" /\ kept # others THEN Raise("TypeError")
        ELSE Ok("engine",
                DataFrame(keys \o [i \in DOMAIN kept |-> df.columns[kept[i]]],
                          RangeIndex(0, Len(firsts), 1),
                          [i \in DOMAIN keys |-> [g \in DOMAIN firsts |-> df.data[keypos[i]][firsts[g]]]]
                          \o [i \in DOMAIN kept |->
                                 [g \in DOMAIN firsts |->
                                     LET rows == GroupRows(df, keys, firsts[g])
                                     IN  Reduce(op, [r \in DOMAIN rows |-> df.data[kept[i]][rows[r]]],
                                                df.dtypes[kept[i]])]],
                          [i \in DOMAIN keys |-> df.dtypes[keypos[i]]]
                          \o [i \in DOMAIN kept |-> ReduceDtype(op, df.dtypes[kept[i]])]))
\* df.groupby(keys, as_index=True).size(): the row count of every group,
\* indexed by the group keys in ascending order
GroupedSize(df, keys) ==
    LET firsts == SortRowsByKey(df, keys, Range(GroupFirsts(df, keys)))
    IN  Series(NoName, KeysIndex([g \in DOMAIN firsts |-> KeyOf(df, keys, firsts[g])]),
               [g \in DOMAIN firsts |-> IntCell(Len(GroupRows(df, keys, firsts[g])))], "int64")

\* df.groupby(list(keys), ...) refuses an empty key list
PandasGroupBy__init__(df, keys) ==
    IF keys.items = <<>> THEN Raise("ValueError")
    ELSE Ok("groupby", [df |-> df, keys |-> keys.items])

RaiseNaming(e, names) == [err |-> e, kind |-> "none", val |-> names]

\* a variant of _validate_result that accepts every result
_validate_result_never(gb, res) == Ok("none", <<>>)

\* failed_columns: the labels of self.df missing from the result
_validate_result(gb, res) ==
    LET failed_columns == Range(gb.df.columns) \ Range(res.columns)
    IN  IF Cardinality(failed_columns) > 0 THEN RaiseNaming("RuntimeError", failed_columns)
        ELSE Ok("none", <<>>)

\* the shape min .. var share: reduce, validate, wrap
Aggregate(gb, op, engine) ==
    LET res == GroupedAgg(gb.df, gb.keys, op, engine)
        checked == _validate_result(gb, res.val)
    IN  IF res.err # "" THEN res
        ELSE IF checked.err # "" THEN checked
        ELSE PandasDataFrame__init__(res.val)
\* (self.df.drop(columns=self.keys).dtypes == "bool").all()
NonKeysBool(gb) ==
    \A j \in DOMAIN gb.df.columns :
        (\A i \in DOMAIN gb.keys : gb.keys[i] # gb.df.columns[j]) => gb.df.dtypes[j] = "bool"

PandasGroupBy_size(gb) == Ok("column", GroupedSize(gb.df, gb.keys))
PandasGroupBy_any(gb, engine) ==
    IF ~NonKeysBool(gb) THEN Raise("ValueError") ELSE Aggregate(gb, "any", engine)
PandasGroupBy_all(gb, engine) ==
    IF ~NonKeysBool(gb) THEN Raise("ValueError") ELSE Aggregate(gb, "all", engine)
PandasGroupBy_min(gb, engine) == Aggregate(gb, "min", engine)
PandasGroupBy_max(gb, engine) == Aggregate(gb, "max", engine)
PandasGroupBy_sum(gb, engine) == Aggregate(gb, "sum", engine)
PandasGroupBy_prod(gb, engine) == Aggregate(gb, "prod", engine)
PandasGroupBy_median(gb, engine) == Aggregate(gb, "median", engine)
PandasGroupBy_mean(gb, engine) == Aggregate(gb, "mean", engine)
PandasGroupBy_std(gb, engine) == Aggregate(gb, "std", engine)
PandasGroupBy_var(gb, engine) == Aggregate(gb, "var", engine)

\* a variant of groupby that looks the keys up before it tests the type
groupby_keys_first(df, keys) ==
    IF \E i \in DOMAIN keys.items : Positions(get_column_names(df), keys.items[i]) = {}
    THEN Raise("KeyError")
    ELSE IF ~IsSequence(keys) \/ keys.type = "str" THEN Raise("TypeError")
    ELSE PandasGroupBy__init__(df, keys)

groupby(df, keys) ==
    IF ~IsSequence(keys) THEN Raise("TypeError")
    ELSE IF keys.type = "str" THEN Raise("TypeError")
    ELSE IF \E i \in DOMAIN keys.items : Positions(get_column_names(df), keys.items[i]) = {}
         THEN Raise("KeyError")
    ELSE PandasGroupBy__init__(df, keys)

(***************************************************************************)
(* The caller.  It holds the Columns of pool, calls a method on the        *)
(* Dataframe the last call returned (on the receiver again when the call   *)
(* returned a Column or a GroupBy), with arguments from small sets, and    *)
(* stops at the first exception, which nothing catches.  A Dataframe past  *)
(* the bounds is a result, never a receiver or an operand.                 *)
(***************************************************************************)
StrLabels == {StrLabel("a"), StrLabel("b")}
Labels == StrLabels \cup {IntLabel("1")}
Values == {1, 2}
InDomain(c) ==
    \/ c.k \in {"bool", "NA", "NaN"}
    \/ c.k \in {"int", "str", "float"} /\ c.d = 1 /\ c.v \in Values
InBounds(df) ==
    /\ NRows(df) <= MaxRows
    /\ NCols(df) <= MaxCols
    /\ \A j \in DOMAIN df.data : \A i \in DOMAIN df.data[j] : InDomain(df.data[j][i])
Returned ==
    IF result.err # "" THEN {}
    ELSE IF result.kind = "frame" THEN {result.val}
    ELSE IF result.kind = "frames" THEN Range(result.val)
    ELSE {self}
Receivers == {df \in Returned : InBounds(df)}
Operands == Receivers \cup {df \in {self} : InBounds(df)}
HeldColumns == pool \cup (IF IsColumn(result) /\ Len(result.val.values) <= MaxRows
                          THEN {result.val} ELSE {})
\* dicts of at most MaxCols items over the Columns of P: a dict's keys are distinct
Dicts(P) ==
    {d \in SeqsUpTo([label : Labels, column : P], MaxCols) :
        \A i, j \in DOMAIN d : d[i].label = d[j].label => i = j}
\* dicts of at most one renaming, the dict that swaps a and b, and a list
Mappings ==
    {PyObj("dict", m) : m \in SeqsUpTo(StrLabels \X Labels, 1)}
    \cup {PyObj("dict", <<<<StrLabel("a"), StrLabel("b")>>, <<StrLabel("b"), StrLabel("a")>>>>),
          PyObj("list", <<>>)}
\* lists of at most MaxCols distinct labels, a list that repeats one, and strs
LabelLists ==
    {PyObj("list", items) : items \in {k \in SeqsUpTo(Labels, MaxCols) : IsInjective(k)}}
    \cup {PyObj("list", <<StrLabel("a"), StrLabel("a")>>),
          PyObj("str", <<StrLabel("a")>>), PyObj("str", <<StrLabel("a"), StrLabel("b")>>)}
KeyLists ==
    {PyObj("list", items) : items \in {k \in SeqsUpTo(Labels, 2) : IsInjective(k)}}
    \cup {PyObj("tuple", items) : items \in {k \in SeqsUpTo(Labels, 1) : IsInjective(k)}}
    \cup {PyObj("str", <<StrLabel("a")>>), PyObj("str", <<StrLabel("a"), StrLabel("b")>>),
          PyObj("set", <<StrLabel("a")>>), PyObj("set", <<IntLabel("1")>>)}
Positions0 == (-1)..MaxRows
\* lists of at most MaxRows positions, one counting from the end and one past it
PositionLists ==
    {PyObj("list", items) : items \in SeqsUpTo(0..(MaxRows - 1), MaxRows)}
    \cup {PyObj("list", <<-1>>), PyObj("list", <<0, MaxRows>>), PyObj("set", <<0>>)}
\* forward slices, backward slices from the last row, and a zero step
SliceArgs ==
    ({0, 1} \X Positions0 \X {1, 2}) \cup ({-1} \X Positions0 \X {-1})
    \cup {<<0, 1, 0>>}
EmptyFrame == DataFrame(<<>>, RangeIndex(0, 0, 1), <<>>, <<>>)
Returns(df, c, r) == self' = df /\ call' = c /\ result' = r /\ UNCHANGED pool

GetColumnByName ==
    \E df \in Receivers, name \in Labels :
        Returns(df, [op |-> "get_column_by_name", name |-> name], get_column_by_name(df, name))

GetColumnsByName ==
    \E df \in Receivers, names \in LabelLists :
        Returns(df, [op |-> "get_columns_by_name", names |-> names],
                get_columns_by_name(df, names))

GetRows ==
    \E df \in Receivers, indices \in PositionLists :
        Returns(df, [op |-> "get_rows", indices |-> indices], get_rows(df, indices))

SliceRows ==
    \E df \in Receivers, s \in SliceArgs :
        Returns(df, [op |-> "slice_rows"], slice_rows(df, s[1], s[2], s[3]))

GetRowsByMask ==
    \E df \in Receivers, mask \in HeldColumns :
        Returns(df, [op |-> "get_rows_by_mask", mask |-> mask], get_rows_by_mask(df, mask))

Insert ==
    \E df \in Receivers, loc \in (-1)..MaxCols, label \in Labels, value \in HeldColumns :
        Returns(df, [op |-> "insert", loc |-> loc, label |-> label, value |-> value],
                insert(df, loc, label, value))

DropColumn ==
    \E df \in Receivers, label \in Labels :
        Returns(df, [op |-> "drop_column", label |-> label], drop_column(df, label))

SetColumn ==
    \E df \in Receivers, label \in Labels, value \in HeldColumns :
        Returns(df, [op |-> "set_column", label |-> label, value |-> value],
                set_column(df, label, value))

RenameColumns ==
    \E df \in Receivers, mapping \in Mappings :
        Returns(df, [op |-> "rename_columns", mapping |-> mapping],
                rename_columns(df, mapping))

Concat ==
    \E df \in Receivers, other \in SeqsUpTo(Operands, 1) :
        Returns(df, [op |-> "concat", other |-> other], concat(df, other))

\* the engine's kernels are modelled on int64 operands
AllInt64(df) == \A j \in DOMAIN df.dtypes : df.dtypes[j] = "int64"
Operator(op, df, other) ==
    CASE op = "__eq__" -> __eq__(df, other)
      [] op = "__ne__" -> __ne__(df, other)
      [] op = "__ge__" -> __ge__(df, other)
      [] op = "__gt__" -> __gt__(df, other)
      [] op = "__le__" -> __le__(df, other)
      [] op = "__lt__" -> __lt__(df, other)
      [] op = "__add__" -> __add__(df, other)
      [] op = "__sub__" -> __sub__(df, other)
      [] op = "__mul__" -> __mul__(df, other)
      [] op = "__truediv__" -> __truediv__(df, other)
      [] op = "__floordiv__" -> __floordiv__(df, other)
      [] op = "__pow__" -> __pow__(df, other)
      [] op = "__mod__" -> __mod__(df, other)
      [] op = "__divmod__" -> __divmod__(df, other)

Binary ==
    \E df \in Operands, other \in Operands, op \in BinaryOps :
        /\ Receivers # {}
        /\ AllInt64(df) /\ AllInt64(other)
        /\ Returns(df, [op |-> op, other |-> other], Operator(op, df, other))

DataFrameAny == \E df \in Receivers : Returns(df, [op |-> "any"], PandasDataFrame_any(df))

DataFrameAll == \E df \in Receivers : Returns(df, [op |-> "all"], PandasDataFrame_all(df))

IsNull == \E df \in Receivers : Returns(df, [op |-> "isnull"], PandasDataFrame_isnull(df))

IsNan == \E df \in Receivers : Returns(df, [op |-> "isnan"], PandasDataFrame_isnan(df))

GroupBy ==
    \E df \in Receivers, keys \in KeyLists :
        Returns(df, [op |-> "groupby", keys |-> keys], groupby(df, keys))

Method(op, gb, engine) ==
    CASE op = "any" -> PandasGroupBy_any(gb, engine)
      [] op = "all" -> PandasGroupBy_all(gb, engine)
      [] op = "min" -> PandasGroupBy_min(gb, engine)
      [] op = "max" -> PandasGroupBy_max(gb, engine)
      [] op = "sum" -> PandasGroupBy_sum(gb, engine)
      [] op = "prod" -> PandasGroupBy_prod(gb, engine)
      [] op = "median" -> PandasGroupBy_median(gb, engine)
      [] op = "mean" -> PandasGroupBy_mean(gb, engine)
      [] op = "std" -> PandasGroupBy_std(gb, engine)
      [] op = "var" -> PandasGroupBy_var(gb, engine)
Reducible(df) == \A j \in DOMAIN df.dtypes : df.dtypes[j] \in {"int64", "bool", "object"}

\* an aggregation of the GroupBy the last call returned
Agg ==
    \E op \in Aggregations, engine \in {"drops", "raises"} :
        /\ IsGroupBy(result) /\ Reducible(result.val.df)
        /\ Returns(self, [op |-> op, gb |-> result.val, engine |-> engine],
                   Method(op, result.val, engine))

Size ==
    /\ IsGroupBy(result) /\ Reducible(result.val.df)
    /\ Returns(self, [op |-> "size", gb |-> result.val], PandasGroupBy_size(result.val))

\* the chain D.drop_column(label).insert(loc, label, C) for the Column C
\* that D.get_column_by_name(label) returned
DropThenInsert(df, loc, label) ==
    LET column == get_column_by_name(df, label)
        dropped == drop_column(df, label)
    IN  IF column.err # "" THEN column
        ELSE IF dropped.err # "" THEN dropped
        ELSE insert(dropped.val, loc, label, column.val)

DropInsert ==
    \E df \in Receivers, loc \in 0..MaxCols, label \in Labels :
        Returns(df, [op |-> "drop_column.insert", loc |-> loc, label |-> label],
                DropThenInsert(df, loc, label))

\* PandasColumn.isnull / isnan of a Column the caller holds
ColumnIsNull ==
    \E column \in HeldColumns :
        /\ result.err = ""
        /\ Returns(self, [op |-> "column.isnull", column |-> column],
                   Ok("column", PandasColumn_isnull(column)))

ColumnIsNan ==
    \E column \in HeldColumns :
        /\ result.err = ""
        /\ Returns(self, [op |-> "column.isnan", column |-> column],
                   Ok("column", PandasColumn_isnan(column)))

\* PandasColumn.__and__ of two bool Columns the caller holds
ColumnAnd ==
    \E column \in HeldColumns, other \in HeldColumns :
        /\ result.err = "" /\ column.dtype = "bool" /\ other.dtype = "bool"
        /\ column.index.kind # "keys" /\ other.index.kind # "keys"
        /\ Returns(self, [op |-> "column.__and__", column |-> column, other |-> other],
                   Ok("column", PandasColumn__and__(column, other)))

(***************************************************************************)
(* Dataframe & other.  pandas_standard.py defines __and__ on PandasColumn  *)
(* only; the Dataframe operator that the tests call is modelled from the   *)
(* specification: the alignment pre-check of every binary operator, then   *)
(* PandasColumn.__and__ column by column, or the scalar with every cell.   *)
(***************************************************************************)
FrameOperand(df) == [kind |-> "frame", val |-> df]
ScalarOperand(b) == [kind |-> "bool", val |-> b]
AllBool(df) == \A j \in DOMAIN df.dtypes : df.dtypes[j] = "bool"
PandasDataFrame__and__(df, other) ==
    IF other.kind = "frame"
    THEN LET e == _validate_comparand(df, other.val)
             cat == ConcatAxis1([j \in DOMAIN df.columns |->
                        PandasColumn__and__(ColumnAt(df, j), ColumnAt(other.val, j))])
         IN  IF e # "" THEN Raise(e)
             ELSE IF df.columns = <<>> THEN PandasDataFrame__init__(df)
             ELSE PandasDataFrame__init__(cat.val)
    ELSE PandasDataFrame__init__(
             [df EXCEPT !.data = [j \in DOMAIN df.data |->
                 [i \in DOMAIN df.data[j] |-> BoolCell(Truth(df.data[j][i]) /\ other.val)]]])

DataFrameAnd ==
    \E df \in Operands, other \in {FrameOperand(o) : o \in Operands}
                                 \cup {ScalarOperand(b) : b \in BOOLEAN} :
        /\ Receivers # {}
        /\ AllBool(df) /\ (other.kind = "frame" => AllBool(other.val))
        /\ Returns(df, [op |-> "__and__", other |-> other], PandasDataFrame__and__(df, other))

(***************************************************************************)
(* The specifications.  Each starts from the Dataframes from_dict builds   *)
(* of the Columns the caller made with from_array, and lets the caller     *)
(* call one group of methods.                                              *)
(***************************************************************************)
\* the state after PandasDataFrame.from_dict(data), a classmethod
Constructed(P) ==
    /\ pool = P
    /\ self = EmptyFrame
    /\ \E data \in Dicts(P) :
           /\ call = [op |-> "from_dict", data |-> data]
           /\ result = from_dict(data)

Int12 == from_array(<<IntCell(1), IntCell(2)>>, "int64").val
Int22 == from_array(<<IntCell(2), IntCell(2)>>, "int64").val
Int1 == from_array(<<IntCell(1)>>, "int64").val
BoolTF == from_array(<<BoolCell(TRUE), BoolCell(FALSE)>>, "bool").val
BoolFT == from_array(<<BoolCell(FALSE), BoolCell(TRUE)>>, "bool").val
BoolTT == from_array(<<BoolCell(TRUE), BoolCell(TRUE)>>, "bool").val
Object12 == from_array(<<StrCell(1), StrCell(2)>>, "object").val
NullableInt == from_array(<<IntCell(1), NA>>, "Int64").val
NullableFloat == from_array(<<NaN, IntCell(2)>>, "Float64").val
FloatNaN == from_array(<<IntCell(1), NaN>>, "float64").val

\* every method that returns a Dataframe
Init == Constructed({Int12, BoolTF})
Next ==
    \/ GetColumnByName \/ GetColumnsByName \/ GetRows \/ SliceRows
    \/ GetRowsByMask \/ Insert \/ DropColumn \/ SetColumn \/ RenameColumns \/ Concat
    \/ Binary \/ DataFrameAny \/ DataFrameAll \/ IsNull \/ IsNan \/ GroupBy \/ Agg \/ Size
Spec == Init /\ [][Next]_vars

\* the binary operators and concat
InitBinary == Constructed({Int12, Int22, Int1})
NextBinary == Binary \/ Concat \/ GetColumnsByName \/ DropColumn \/ SliceRows
SpecBinary == InitBinary /\ [][NextBinary]_vars

\* row selection
InitRows == Constructed({Int12, BoolTF, Int1})
NextRows == GetRows \/ SliceRows \/ GetRowsByMask \/ GetColumnByName
SpecRows == InitRows /\ [][NextRows]_vars

\* column selection and replacement
InitColumns == Constructed({Int12, BoolTF, Int1})
NextColumns ==
    \/ GetColumnByName \/ GetColumnsByName \/ Insert \/ DropColumn \/ SetColumn
    \/ RenameColumns \/ DropInsert
SpecColumns == InitColumns /\ [][NextColumns]_vars

\* groupby and the aggregations
InitGroupBy == Constructed({Int12, Int22, BoolTF, Object12})
NextGroupBy == GroupBy \/ Agg \/ Size
SpecGroupBy == InitGroupBy /\ [][NextGroupBy]_vars

\* isnull and isnan of a Dataframe and of a Column
InitNull == Constructed({Int12, NullableInt, NullableFloat, FloatNaN})
NextNull == IsNull \/ IsNan \/ GetColumnByName \/ ColumnIsNull \/ ColumnIsNan \/ GetRows
SpecNull == InitNull /\ [][NextNull]_vars

\* logical and
InitAnd == Constructed({BoolTF, BoolFT, BoolTT})
NextAnd == DataFrameAnd \/ ColumnAnd \/ GetColumnByName \/ GetColumnsByName \/ SetColumn \/ SliceRows
SpecAnd == InitAnd /\ [][NextAnd]_vars

(***************************************************************************)
(* Properties.                                                             *)
(***************************************************************************)
\* the Dataframes of an outcome
FramesOf(r) ==
    IF r.err # "" THEN {}
    ELSE IF r.kind = "frame" THEN {r.val}
    ELSE IF r.kind = "frames" THEN Range(r.val)
    ELSE IF r.kind = "groupby" THEN {r.val.df}
    ELSE {}
\* the row labels 0, 1, .., n-1
ZeroBased(n) == [i \in 1..n |-> i - 1]
SameLabels(d1, d2) == d1.columns = d2.columns
SameRowLabels(d1, d2) == d1.index.labels = d2.index.labels
Differ(d1, d2) ==
    \/ NRows(d1) # NRows(d2)
    \/ NCols(d1) # NCols(d2)
    \/ ~SameLabels(d1, d2)
    \/ ~SameRowLabels(d1, d2)

\* C1: a binary operator D1 op D2 of two Dataframes raises ValueError and
\* returns nothing when the operands differ in shape, in their column labels
\* or the order of them, or in their row labels; when they agree in all of
\* these, every Dataframe it returns has the column labels, in order, and
\* the index of D1.
C1_AlignedOrValueError ==
    call.op \in BinaryOps =>
        IF Differ(self, call.other)
        THEN result.err = "ValueError" /\ FramesOf(result) = {}
        ELSE /\ result.err = ""
             /\ FramesOf(result) # {}
             /\ \A r \in FramesOf(result) :
                    SameLabels(r, self) /\ r.index = self.index

\* the operands hold equal values under the same labels in another order
C1_Witness ==
    /\ call.op = "__eq__"
    /\ Shape(self) = Shape(call.other)
    /\ NCols(self) = 2
    /\ self.columns # call.other.columns
    /\ \A j \in DOMAIN self.columns :
           /\ self.columns[j] \in Range(call.other.columns)
           /\ self.data[j] = call.other.data[IndexOf(call.other.columns, self.columns[j])]
    /\ result.err = "ValueError"

\* C2: whatever index the engine's frame carried, the index of every
\* Dataframe is 0, 1, .., N-1 for its row count N.
C2_CanonicalIndex ==
    \A df \in FramesOf(result) \cup {self} :
        /\ df.index.labels = ZeroBased(NRows(df))
        /\ \A j \in DOMAIN df.data : Len(df.data[j]) = NRows(df)

\* get_rows took the rows in an order that is not ascending
C2_Witness ==
    /\ call.op = "get_rows"
    /\ call.indices = PyObj("list", <<1, 0>>)
    /\ IsFrame(result)
    /\ ILocRows(self, call.indices.items).index.labels = <<1, 0>>
    /\ result.val.index.labels = <<0, 1>>

\* C3: the column labels of every Dataframe are strings and pairwise
\* distinct; insert of a label the Dataframe has, a renaming that maps two
\* labels to one, a selection that repeats a label, and a label that is not
\* a string each end in an exception.
HasValidLabels(df) ==
    /\ \A j \in DOMAIN df.columns : IsStr(df.columns[j])
    /\ \A i, j \in DOMAIN df.columns : df.columns[i] = df.columns[j] => i = j
C3_UniqueStringLabels ==
    /\ \A df \in FramesOf(result) \cup {self} : HasValidLabels(df)
    /\ call.op = "insert" /\ (call.label \in Range(self.columns) \/ ~IsStr(call.label))
           => result.err # ""
    /\ call.op = "rename_columns" /\ call.mapping.type = "dict"
           => \/ result.err # ""
              \/ /\ IsFrame(result)
                 /\ NCols(result.val) = NCols(self)
                 /\ \A m \in Range(call.mapping.items) :
                        m[1] \in Range(self.columns) => m[2] \in Range(result.val.columns)
    /\ call.op = "get_columns_by_name" /\ ~IsInjective(call.names.items)
           => result.err # ""
    /\ call.op = "from_dict" /\ (\E i \in DOMAIN call.data : ~IsStr(call.data[i].label))
           => result.err # ""

\* insert of a label the Dataframe already has
C3_Witness ==
    /\ call.op = "insert"
    /\ call.label \in Range(self.columns)
    /\ call.value.index.labels = self.index.labels
    /\ call.loc \in 0..NCols(self)
    /\ result.err = "ValueError"

\* C4: groupby(keys) raises TypeError when keys is a bare string or not a
\* sequence, whether or not its items are column labels; raises KeyError when
\* keys is a list or tuple with an item that is no column label; and returns
\* a GroupBy only for a list or tuple of existing column labels.
IsListOrTuple(x) == x.type \in {"list", "tuple"}
AllPresent(df, keys) == \A i \in DOMAIN keys.items : keys.items[i] \in Range(df.columns)
C4_GroupByKeys ==
    call.op = "groupby" =>
        /\ ~IsListOrTuple(call.keys) => result.err = "TypeError"
        /\ IsListOrTuple(call.keys) /\ ~AllPresent(self, call.keys) => result.err = "KeyError"
        /\ IsGroupBy(result) =>
               /\ IsListOrTuple(call.keys) /\ AllPresent(self, call.keys)
               /\ result.val.df = self /\ result.val.keys = call.keys.items

\* a bare string that names a column
C4_Witness ==
    /\ call.op = "groupby"
    /\ call.keys.type = "str"
    /\ AllPresent(self, call.keys)
    /\ result.err = "TypeError"

\* the column labels an outcome carries
ColumnsOf(r) == IF IsFrame(r) THEN Range(r.val.columns) ELSE {}
\* the labels of the original that the engine's grouped reduction lacks
Dropped(gb, op, engine) ==
    LET res == GroupedAgg(gb.df, gb.keys, op, engine)
    IN  IF res.err # "" THEN {} ELSE Range(gb.df.columns) \ Range(res.val.columns)

\* C5 as stated: every aggregation method, size among them, returns a result
\* that contains every column of the original Dataframe.
C5_EveryMethodKeepsColumns ==
    call.op \in Aggregations \cup {"size"} /\ result.err = ""
        => Range(call.gb.df.columns) \subseteq ColumnsOf(result)

\* C5: any, all, min, max, sum, prod, median, mean, std and var return a
\* Dataframe that holds every column of the original whenever they return,
\* and raise RuntimeError naming the dropped columns when the engine dropped
\* any; size returns a Column of the row counts of the groups, indexed by
\* the group keys, and none of the original's columns.
C5_AggregationsKeepColumns ==
    /\ call.op \in Aggregations =>
           /\ result.err = "" =>
                  IsFrame(result) /\ Range(call.gb.df.columns) \subseteq ColumnsOf(result)
           /\ Dropped(call.gb, call.op, call.engine) # {} =>
                  /\ result.err = "RuntimeError"
                  /\ result.val = Dropped(call.gb, call.op, call.engine)
                  /\ FramesOf(result) = {}
    /\ call.op = "size" =>
           /\ IsColumn(result)
           /\ result.val.index.kind = "keys"
           /\ SumV(result.val.values) = Len(KeyedRows(call.gb.df, call.gb.keys))
           /\ ColumnsOf(result) = {}

\* the engine dropped a column of strings from a mean
C5_Witness ==
    /\ call.op = "mean"
    /\ call.engine = "drops"
    /\ \E j \in DOMAIN call.gb.df.columns :
           /\ call.gb.df.dtypes[j] = "object"
           /\ call.gb.df.columns[j] \notin Range(call.gb.keys)
           /\ result.val = {call.gb.df.columns[j]}
    /\ result.err = "RuntimeError"

\* C6: get_rows of a list of positions, each in 0..N-1, in any order and with
\* repeats, returns len(indices) rows; row i holds the values of the
\* original's row indices[i], under the original's labels in their order.
C6_Gather ==
    /\ call.op = "get_rows"
    /\ call.indices.type = "list"
    /\ \A i \in DOMAIN call.indices.items : call.indices.items[i] \in 0..(NRows(self) - 1)
    => /\ IsFrame(result)
       /\ NRows(result.val) = Len(call.indices.items)
       /\ result.val.columns = self.columns
       /\ result.val.dtypes = self.dtypes
       /\ \A j \in DOMAIN self.columns :
              /\ Len(result.val.data[j]) = Len(call.indices.items)
              /\ \A i \in DOMAIN call.indices.items :
                     result.val.data[j][i] = self.data[j][call.indices.items[i] + 1]

\* values [1, 2] gathered with [1, 0] give [2, 1]
C6_Witness ==
    /\ call.op = "get_rows"
    /\ call.indices = PyObj("list", <<1, 0>>)
    /\ NCols(self) >= 1
    /\ self.data[1] = <<IntCell(1), IntCell(2)>>
    /\ IsFrame(result)
    /\ result.val.data[1] = <<IntCell(2), IntCell(1)>>

\* C7: df & other of a boolean Dataframe has df's labels in df's order and
\* df's row count; each cell is the logical and of df's cell with the cell of
\* other at that place when other is an aligned boolean Dataframe, and with
\* other itself when other is a boolean scalar, so df & True holds df's
\* values.
OtherCell(other, j, i) ==
    IF other.kind = "frame" THEN Truth(other.val.data[j][i]) ELSE other.val
SameDtypes(df, others) == \A o \in DOMAIN others : others[o].dtypes = df.dtypes
C8_ConcatUnion ==
    call.op = "concat" =>
        IF SameDtypes(self, call.other)
        THEN /\ IsFrame(result)
             /\ result.val.columns = self.columns
             /\ NRows(result.val)
                    = NRows(self) + Len(Flatten([o \in DOMAIN call.other |->
                                                    call.other[o].index.labels]))
             /\ \A j \in DOMAIN self.columns :
                    result.val.data[j]
                        = self.data[j] \o Flatten([o \in DOMAIN call.other |->
                                                      call.other[o].data[j]])
        ELSE result.err # ""

\* C9: D.drop_column(L).insert(p, L, C), for the label L of D at position p
\* that holds the Column C, returns D: the labels in their order, the values
\* and the index of D.  set_column(L, C') of a label D has keeps the labels
\* in their order and every other column, and puts the values of C' under L;
\* of a label D lacks, it keeps D's columns and adds L as the last one.
Others(df, label) == {j \in DOMAIN df.columns : df.columns[j] # label}
C9_DropInsertRoundTrip ==
    /\ /\ call.op = "drop_column.insert"
       /\ call.label \in Range(self.columns)
       /\ call.loc = IndexOf(self.columns, call.label) - 1
       => IsFrame(result) /\ result.val = self
    /\ call.op = "set_column" /\ IsFrame(result) =>
           LET new == result.val
           IN  IF call.label \in Range(self.columns)
               THEN /\ new.columns = self.columns
                    /\ \A j \in Others(self, call.label) :
                           new.data[j] = self.data[j] /\ new.dtypes[j] = self.dtypes[j]
                    /\ new.data[IndexOf(self.columns, call.label)] = call.value.values
               ELSE /\ new.columns = Append(self.columns, call.label)
                    /\ \A j \in DOMAIN self.columns :
                           new.data[j] = self.data[j] /\ new.dtypes[j] = self.dtypes[j]
                    /\ new.data[NCols(self) + 1] = call.value.values
    /\ call.op = "set_column" /\ IsStr(call.label)
           /\ call.value.index.labels = self.index.labels
           /\ call.value.index.kind # "keys"
           => IsFrame(result)

\* the first of two columns is dropped and put back
C9_Witness ==
    /\ call.op = "drop_column.insert"
    /\ NCols(self) = 2
    /\ call.label = self.columns[1]
    /\ call.loc = 0
    /\ self.data[1] # self.data[2]
    /\ IsFrame(result)
    /\ result.val = self

\* C10 as stated: the column L of D.isnull() equals D's column L .isnull(),
\* and the column L of D.isnan() equals D's column L .isnan(), cell for
\* cell, under D's labels in D's order.
ColumnLevel(op, column) ==
    IF op = "isnull" THEN PandasColumn_isnull(column) ELSE PandasColumn_isnan(column)
C10_ColumnWise ==
    call.op \in {"isnull", "isnan"} /\ IsFrame(result) =>
        /\ result.val.columns = self.columns
        /\ \A j \in DOMAIN self.columns :
               get_column_by_name(result.val, self.columns[j]).val.values
                   = ColumnLevel(call.op,
                                 get_column_by_name(self, self.columns[j]).val).values

=============================================================================
